---- MODULE Spec2Model ----
(***************************************************************************)
(* Model of build.rs of esp-homekit-sdk-sys: resolution of the tools       *)
(* install directory, acquisition of platformio, the sdkconfig overlay     *)
(* lists, the kconfig -> rustc cfg translation, and the order of the       *)
(* pipeline stages of main().                                              *)
(*                                                                         *)
(* Strings are sequences of atoms.  Where letter case, trimming or         *)
(* substring search matter (the install directive, the kconfig keys) an    *)
(* atom is one character; in file paths an atom is a path component or one *)
(* of the separators "/", "." and ";".                                     *)
(***************************************************************************)
EXTENDS Naturals, Sequences, FiniteSets, TLC

VARIABLES
    env,                 \* the process environment and file system (inputs)
    pc,                  \* position of main()
    err,                 \* the error main() returned, "none" while running
    stages,              \* history: the stages executed, in order
    install_dir,         \* InstallDir returned by from_env_or
    allow_from_env,      \* is_default flag returned by from_env_or
    pio,                 \* where the Pio instance came from
    warnings,            \* cargo warnings printed
    created_dirs,        \* directories created by fs::create_dir_all
    install_calls,       \* arguments of the calls of the install closure
    subprocs,            \* subprocesses invoked, in order
    tracked,             \* files registered with cargo::track_file
    sdkconfig,           \* Option<(path, dest)> of the primary sdkconfig
    sdkconfig_defaults,  \* Vec<(path, dest)> handed to builder.files
    cfg_args,            \* the flags of build::CfgArgs
    expanded             \* result of a direct call of list_specific_sdkconfigs

vars == <<env, pc, err, stages, install_dir, allow_from_env, pio, warnings,
          created_dirs, install_calls, subprocs, tracked, sdkconfig,
          sdkconfig_defaults, cfg_args, expanded>>

---------------------------------------------------------------------------
(* Strings *)

UpperChars == <<"A","B","C","D","E","F","G","I","K","L","M","N","O","P","R","S","T","U","V","W","X">>
LowerChars == <<"a","b","c","d","e","f","g","i","k","l","m","n","o","p","r","s","t","u","v","w","x">>

\* char::to_lowercase on the letters the model uses
ToLowerChar(c) ==
    IF \E i \in 1..Len(UpperChars) : UpperChars[i] = c
    THEN LowerChars[CHOOSE i \in 1..Len(UpperChars) : UpperChars[i] = c]
    ELSE c

\* str::to_lowercase
to_lowercase(s) == [i \in 1..Len(s) |-> ToLowerChar(s[i])]

IsWhitespace(c) == c \in {" ", "\t", "\n"}

RECURSIVE TrimStart(_)
TrimStart(s) ==
    IF s # <<>> /\ IsWhitespace(Head(s)) THEN TrimStart(Tail(s)) ELSE s

RECURSIVE TrimEnd(_)
TrimEnd(s) ==
    IF s # <<>> /\ IsWhitespace(s[Len(s)])
    THEN TrimEnd(SubSeq(s, 1, Len(s) - 1)) ELSE s

\* str::trim
trim(s) == TrimEnd(TrimStart(s))

starts_with(s, p) == Len(s) >= Len(p) /\ SubSeq(s, 1, Len(p)) = p

\* str::strip_prefix, as Option
None == [some |-> FALSE]
Some(v) == [some |-> TRUE, val |-> v]

strip_prefix(s, p) ==
    IF starts_with(s, p) THEN Some(SubSeq(s, Len(p) + 1, Len(s))) ELSE None

\* Regex::is_match for a pattern that is a plain literal: substring search
is_match(pattern, s) ==
    \E i \in 0..Len(s) :
        i + Len(pattern) <= Len(s) /\ SubSeq(s, i + 1, i + Len(pattern)) = pattern

\* An environment variable is None when unset, else Some(value).  A value that
\* is not valid unicode holds the atom BAD: env::var_os returns it, and
\* OsStrExt::try_to_str rejects it.
BAD == "\\xFF"

Ok(v) == [ok |-> TRUE, val |-> v]
Err(e) == [ok |-> FALSE, error |-> e]

try_to_str(s) ==
    IF \E i \in 1..Len(s) : s[i] = BAD THEN Err("NotUnicode") ELSE Ok(s)

RECURSIVE Reverse(_)
Reverse(s) == IF s = <<>> THEN <<>> ELSE Append(Reverse(Tail(s)), Head(s))

RECURSIVE Flatten(_)
Flatten(ss) == IF ss = <<>> THEN <<>> ELSE Head(ss) \o Flatten(Tail(ss))

Range(s) == {s[i] : i \in 1..Len(s)}

---------------------------------------------------------------------------
(* Paths *)

SEP == "/"
workspace_dir == <<SEP, "w">>
out_dir == <<SEP, "out">>
TOOLS_WORKSPACE_INSTALL_DIR == <<".embuild">>
SDKCONFIG_FILE == <<"sdkconfig">>
SDKCONFIG_DEFAULTS_FILE == <<"sdkconfig", ".", "defaults">>

is_absolute(p) == p # <<>> /\ Head(p) = SEP

\* Path::join
join(base, p) == IF is_absolute(p) THEN p ELSE base \o <<SEP>> \o p

\* PathExt::abspath_relative_to
abspath_relative_to(p, base) == IF is_absolute(p) THEN p ELSE join(base, p)

---------------------------------------------------------------------------
(* InstallDir *)

Global == [kind |-> "Global"]
Workspace(p) == [kind |-> "Workspace", path |-> p]
Out(p) == [kind |-> "Out", path |-> p]
Custom(p) == [kind |-> "Custom", path |-> p]
FromEnv == [kind |-> "FromEnv"]

S_global == <<"g","l","o","b","a","l">>
S_workspace == <<"w","o","r","k","s","p","a","c","e">>
S_out == <<"o","u","t">>
S_fromenv == <<"f","r","o","m","e","n","v">>
S_custom_prefix == <<"c","u","s","t","o","m",":">>
S_platformio == <<"platformio">>

\* cargo::workspace_dir(), an Option: the environment decides whether the
\* crate is built inside a workspace
workspace_dir_opt(e) == IF e.has_workspace THEN Some(workspace_dir) ELSE None

\* The match of from_env_or on the lowercased location, lines 88-108.
\* ws is the result of workspace_dir().
ParseLocation(location, builder_name, ws) ==
    LET lower == to_lowercase(location) IN
    IF lower = S_global THEN Ok(Global)
    ELSE IF lower = S_workspace
        THEN IF ws.some
             THEN Ok(Workspace(join(join(ws.val, TOOLS_WORKSPACE_INSTALL_DIR),
                                    builder_name)))
             ELSE Err("ConfigurationError")
    ELSE IF lower = S_out THEN Ok(Out(join(out_dir, builder_name)))
    ELSE IF lower = S_fromenv THEN Ok(FromEnv)
    ELSE LET suffix == strip_prefix(location, S_custom_prefix) IN
         IF suffix.some
         THEN IF ws.some
              THEN Ok(Custom(abspath_relative_to(suffix.val, ws.val)))
              ELSE Err("ConfigurationError")
         ELSE Err("ConfigurationError")

\* ChooseLocation with the emptiness test made on the untrimmed value
ChooseLocationUntrimmed(value, default_install_dir) ==
    IF ~value.some THEN Ok(<<default_install_dir, TRUE>>)
    ELSE LET str == try_to_str(value.val) IN
         IF ~str.ok THEN Err("ConfigurationError")
         ELSE IF str.val = <<>> THEN Ok(<<default_install_dir, TRUE>>)
         ELSE Ok(<<trim(str.val), FALSE>>)

\* The choice between the variable and the default, lines 76-87:
\* Ok(<<location, is_default>>) or the error of try_to_str
ChooseLocation(value, default_install_dir) ==
    IF ~value.some THEN Ok(<<default_install_dir, TRUE>>)
    ELSE LET str == try_to_str(value.val) IN
         IF ~str.ok THEN Err("ConfigurationError")
         ELSE LET val == trim(str.val) IN
              IF val = <<>> THEN Ok(<<default_install_dir, TRUE>>)
              ELSE Ok(<<val, FALSE>>)

\* InstallDir::from_env_or: Ok(<<install_dir, is_default>>) or an error
from_env_or(value, default_install_dir, builder_name, ws) ==
    LET chosen == ChooseLocation(value, default_install_dir) IN
    IF ~chosen.ok THEN chosen
    ELSE LET parsed == ParseLocation(chosen.val[1], builder_name, ws) IN
         IF ~parsed.ok THEN parsed
         ELSE Ok(<<parsed.val, chosen.val[2]>>)

\* is_from_env matching the wrong variant
is_from_env_wrong_variant(d) == d.kind = "Global"

is_from_env(d) == d.kind = "FromEnv"

\* InstallDir::path, an Option
path(d) ==
    IF d.kind \in {"Global", "FromEnv"} THEN None ELSE Some(d.path)

---------------------------------------------------------------------------
(* Acquisition of platformio, main lines 160-197 *)

\* maybe_from_env without the requirement
maybe_from_env_allow_only(require_from_env, allow) == allow

\* maybe_from_env, line 161
maybe_from_env(require_from_env, allow) == require_from_env \/ allow

\* The arm the match of lines 174-197 takes
AcquireArm(found, maybe, require_from_env) ==
    IF found /\ maybe THEN "reuse"
    ELSE IF found /\ ~maybe THEN "warn_install"
    ELSE IF maybe /\ require_from_env THEN "not_found"
    ELSE "install"

\* The install closure, lines 163-172.  mkdir_ok and installer_ok are the
\* outcomes of fs::create_dir_all and of the installer subprocess.
Install(dir, mkdir_ok, installer_ok) ==
    LET p == path(dir) IN
    IF p.some /\ ~mkdir_ok
    THEN [created |-> {}, invoked |-> <<>>, error |-> "IoError"]
    ELSE [created |-> IF p.some THEN {p.val} ELSE {},
          invoked |-> <<[cmd |-> "install", dir |-> p]>>,
          error |-> IF installer_ok THEN "none" ELSE "InstallError"]

---------------------------------------------------------------------------
(* sdkconfig overlays, lines 27-56 and 213-258 *)

\* Index of the last separator of p, 0 when there is none
LastSep(p) ==
    IF \E i \in 1..Len(p) : p[i] = SEP
    THEN CHOOSE i \in 1..Len(p) : p[i] = SEP /\ \A j \in (i + 1)..Len(p) : p[j] # SEP
    ELSE 0

\* Path::file_name: the last component, None when the path ends in ".."
file_name(p) ==
    LET name == SubSeq(p, LastSep(p) + 1, Len(p)) IN
    IF name = <<>> \/ name = <<"..">> THEN None ELSE Some(name)

\* Path::with_file_name
with_file_name(p, name) == SubSeq(p, 1, LastSep(p)) \o name

\* format!("{}.{}", a, b)
Dotted(a, b) == a \o <<".">> \o b

\* Path::is_file on the file system d, which holds regular files (d.files)
\* and directories (d.dirs)
is_file(d, p) == p \in d.files

\* Candidates with the profile-specific name ranked above the chip-specific
CandidatesProfileBeforeChip(filename, profile, chip) ==
    <<filename \o <<".">> \o profile \o <<".">> \o chip,
      filename \o <<".">> \o profile,
      filename \o <<".">> \o chip,
      filename>>

\* The four candidate names of lines 35-44, most specific first
Candidates(filename, profile, chip) ==
    LET profile_specific == Dotted(filename, profile)
        chip_specific == Dotted(filename, chip)
        profile_chip_specific == Dotted(profile_specific, chip)
    IN <<profile_chip_specific, chip_specific, profile_specific, filename>>

\* list_specific_sdkconfigs, lines 27-56
list_specific_sdkconfigs(d, p, profile, chip) ==
    LET fname == file_name(p)
        named == IF fname.some /\ try_to_str(fname.val).ok
                 THEN Candidates(fname.val, profile, chip) ELSE <<>>
        paths == [i \in 1..Len(named) |-> with_file_name(p, named[i])]
    IN SelectSeq(paths, LAMBDA q : is_file(d, q))

\* str::split(';')
RECURSIVE split(_)
split(s) ==
    IF \E i \in 1..Len(s) : s[i] = ";"
    THEN LET k == CHOOSE i \in 1..Len(s) : s[i] = ";" /\ \A j \in 1..(i - 1) : s[j] # ";"
         IN <<SubSeq(s, 1, k - 1)>> \o split(SubSeq(s, k + 1, Len(s)))
    ELSE <<s>>

\* The primary sdkconfig taken from the end of the expansion
ResolvePrimaryLeastSpecific(e) ==
    LET file == IF e.sdkconfig_var.some THEN e.sdkconfig_var.val ELSE SDKCONFIG_FILE
        p == abspath_relative_to(file, workspace_dir)
        found == list_specific_sdkconfigs(e.disk, p, e.profile, e.mcu)
    IN IF found = <<>> THEN None
       ELSE Some(<<found[Len(found)], Dotted(<<"sdkconfig">>, e.profile)>>)

\* The primary sdkconfig, lines 213-223: None or Some(<<path, dest>>)
ResolvePrimarySdkconfig(e) ==
    LET file == IF e.sdkconfig_var.some THEN e.sdkconfig_var.val ELSE SDKCONFIG_FILE
        p == abspath_relative_to(file, workspace_dir)
        found == list_specific_sdkconfigs(e.disk, p, e.profile, e.mcu)
    IN IF found = <<>> THEN None
       ELSE Some(<<Head(found), Dotted(<<"sdkconfig">>, e.profile)>>)

\* The expansion of one item without the reversal
ExpandDefaultUnreversed(e, v) ==
    IF v # <<>>
    THEN list_specific_sdkconfigs(e.disk, abspath_relative_to(v, workspace_dir),
                                  e.profile, e.mcu)
    ELSE <<>>

\* The expansion of one item of the defaults list, lines 230-242
ExpandDefault(e, v) ==
    IF v # <<>>
    THEN Reverse(list_specific_sdkconfigs(e.disk, abspath_relative_to(v, workspace_dir),
                                          e.profile, e.mcu))
    ELSE <<>>

\* The sdkconfig defaults, lines 227-248, for a list that is valid unicode:
\* the sequence of <<path, dest>>
ResolveSdkconfigDefaults(e, list) ==
    LET items == split(list)
        found == Flatten([i \in 1..Len(items) |-> ExpandDefault(e, items[i])])
    IN [i \in 1..Len(found) |-> <<found[i], file_name(found[i]).val>>]

\* Tracking of the destination names instead of the paths
TrackDefaultsByName(t, files) == t \cup {files[i][2] : i \in 1..Len(files)}

\* cargo::track_file on every file of the defaults, line 245
TrackDefaults(t, files) == t \cup {files[i][1] : i \in 1..Len(files)}

---------------------------------------------------------------------------
(* kconfig -> rustc cfg, lines 277-295 *)

TristateTrue == [type |-> "Tristate", t |-> "True"]
TristateFalse == [type |-> "Tristate", t |-> "False"]
TristateModule == [type |-> "Tristate", t |-> "Module"]
TristateNotSet == [type |-> "Tristate", t |-> "NotSet"]
String(s) == [type |-> "String", s |-> s]

\* The pattern of line 277
kconfig_str_allow == <<"I","D","F","_","T","A","R","G","E","T">>
S_esp_idf == <<"e","s","p","_","i","d","f">>

\* The filter with both conditions required
CfgFilterBoth(entry) ==
    entry.value = TristateTrue /\ is_match(kconfig_str_allow, entry.key)

\* The filter of lines 289-292
CfgFilter(entry) ==
    entry.value = TristateTrue \/ is_match(kconfig_str_allow, entry.key)

\* kconfig::Value::to_rustc_cfg (embuild), called at line 293: Some(flag) for
\* a true tristate and for a string, None for every other value
to_rustc_cfg(value, prefix, key) ==
    LET name == prefix \o <<"_">> \o to_lowercase(key) IN
    IF value = TristateTrue THEN Some(name)
    ELSE IF value.type = "String" THEN Some(name \o <<"=", "\"">> \o value.s \o <<"\"">>)
    ELSE None

\* The iterator chain of lines 279-294
TranslateCfg(entries) ==
    LET kept == SelectSeq(entries, CfgFilter)
        flags == [i \in 1..Len(kept) |-> to_rustc_cfg(kept[i].value, S_esp_idf, kept[i].key)]
        some == SelectSeq(flags, LAMBDA f : f.some)
    IN [i \in 1..Len(some) |-> some[i].val]

\* build::CfgArgs::get (embuild), called at line 339: the value of the first
\* flag `name="value"`
CfgGet(args, name) ==
    LET hits == SelectSeq(args, LAMBDA a : starts_with(a, name \o <<"=">>)) IN
    IF hits = <<>> THEN None ELSE Some(hits[1])

---------------------------------------------------------------------------
(* main, lines 138-384 *)

NoError == [kind |-> "none"]
Failure(kind, stage) == [kind |-> kind, stage |-> stage]

\* A stage whose error is recorded while main stays at the stage
FailsAndRetries(stage, kind) ==
    /\ pc' = pc
    /\ err' = Failure(kind, stage)
    /\ stages' = Append(stages, stage)

\* A stage that ends main with an error
Fails(stage, kind) ==
    /\ pc' = "failed"
    /\ err' = Failure(kind, stage)
    /\ stages' = Append(stages, stage)

\* A stage that completes and hands over to the next one
Passes(stage, next) ==
    /\ pc' = next
    /\ err' = err
    /\ stages' = Append(stages, stage)

S_idf_target_cfg ==
    <<"e","s","p","_","i","d","f","_","c","o","n","f","i","g","_","i","d","f","_","t","a","r","g","e","t">>

\* Lines 139-154: a PIO->Cargo build generates the bindings only; otherwise
\* the workspace is looked up
Start ==
    /\ pc = "start"
    /\ IF env.piofirst THEN Passes("start", "cfg")
       ELSE IF ~workspace_dir_opt(env).some THEN Fails("start", "ConfigurationError")
       ELSE Passes("start", "from_env_or")
    /\ UNCHANGED <<env, install_dir, allow_from_env, pio, warnings, created_dirs,
                   install_calls, subprocs, tracked, sdkconfig, sdkconfig_defaults,
                   cfg_args, expanded>>

\* Line 158
ResolveInstallDir ==
    /\ pc = "from_env_or"
    /\ LET r == from_env_or(env.install_var, S_workspace, S_platformio,
                            workspace_dir_opt(env)) IN
       IF r.ok
       THEN /\ install_dir' = r.val[1]
            /\ allow_from_env' = r.val[2]
            /\ Passes("from_env_or", "acquire")
       ELSE /\ Fails("from_env_or", r.error)
            /\ UNCHANGED <<install_dir, allow_from_env>>
    /\ UNCHANGED <<env, pio, warnings, created_dirs, install_calls, subprocs,
                   tracked, sdkconfig, sdkconfig_defaults, cfg_args, expanded>>

\* Lines 160-197
AcquireToolchain ==
    /\ pc = "acquire"
    /\ LET require_from_env == is_from_env(install_dir)
           maybe == maybe_from_env(require_from_env, allow_from_env)
           arm == AcquireArm(env.pio_in_env, maybe, require_from_env)
       IN
       IF arm = "reuse"
       THEN /\ pio' = "env"
            /\ Passes("acquire", "resolve")
            /\ UNCHANGED <<warnings, created_dirs, install_calls, subprocs>>
       ELSE IF arm = "not_found"
       THEN /\ Fails("acquire", "ToolchainNotFound")
            /\ UNCHANGED <<pio, warnings, created_dirs, install_calls, subprocs>>
       ELSE \E mkdir_ok \in BOOLEAN, installer_ok \in BOOLEAN :
            LET r == Install(install_dir, mkdir_ok, installer_ok) IN
            /\ warnings' = IF arm = "warn_install"
                           THEN Append(warnings, "Ignoring platformio in environment")
                           ELSE warnings
            /\ install_calls' = Append(install_calls, install_dir)
            /\ created_dirs' = created_dirs \cup r.created
            /\ subprocs' = subprocs \o r.invoked
            /\ IF r.error = "none"
               THEN pio' = "installed" /\ Passes("acquire", "resolve")
               ELSE pio' = pio /\ Fails("acquire", r.error)
    /\ UNCHANGED <<env, install_dir, allow_from_env, tracked, sdkconfig,
                   sdkconfig_defaults, cfg_args, expanded>>

\* Lines 199-207: the platform resolver is external and may fail
ResolvePlatform ==
    /\ pc = "resolve"
    /\ \E ok \in BOOLEAN :
        IF ok THEN Passes("resolve", "sdkconfig")
        ELSE Fails("resolve", "ResolutionError")
    /\ UNCHANGED <<env, install_dir, allow_from_env, pio, warnings, created_dirs,
                   install_calls, subprocs, tracked, sdkconfig, sdkconfig_defaults,
                   cfg_args, expanded>>

\* Lines 209-223
ResolvePrimary ==
    /\ pc = "sdkconfig"
    /\ LET cfg == ResolvePrimarySdkconfig(env) IN
       /\ sdkconfig' = cfg
       /\ tracked' = IF cfg.some THEN tracked \cup {cfg.val[1]} ELSE tracked
    /\ Passes("sdkconfig", "sdkconfig_defaults")
    /\ UNCHANGED <<env, install_dir, allow_from_env, pio, warnings, created_dirs,
                   install_calls, subprocs, sdkconfig_defaults, cfg_args, expanded>>

\* Lines 225-258.  The list is rejected at line 228 when it is not unicode.
\* The iterator built at lines 227-248 is lazy: the files are looked up and
\* tracked when builder.files consumes it at line 258, after the environment
\* reads of lines 250-256, which may fail.
ResolveDefaults ==
    /\ pc = "sdkconfig_defaults"
    /\ LET var == IF env.defaults_var.some THEN env.defaults_var.val
                  ELSE SDKCONFIG_DEFAULTS_FILE
           str == try_to_str(var)
       IN
       IF ~str.ok
       THEN /\ Fails("sdkconfig_defaults", "ConfigurationError")
            /\ UNCHANGED <<tracked, sdkconfig_defaults>>
       ELSE \E env_ok \in BOOLEAN :
            IF ~env_ok
            THEN /\ Fails("sdkconfig_defaults", "EnvError")
                 /\ UNCHANGED <<tracked, sdkconfig_defaults>>
            ELSE LET files == ResolveSdkconfigDefaults(env, str.val) IN
                 /\ sdkconfig_defaults' = files
                 /\ tracked' = TrackDefaults(tracked, files)
                 /\ Passes("sdkconfig_defaults", "generate")
    /\ UNCHANGED <<env, install_dir, allow_from_env, pio, warnings, created_dirs,
                   install_calls, subprocs, sdkconfig, cfg_args, expanded>>

\* Line 260
GenerateProject ==
    /\ pc = "generate"
    /\ \E ok \in BOOLEAN :
        IF ok THEN Passes("generate", "lib_install")
        ELSE Fails("generate", "BuildError")
    /\ UNCHANGED <<env, install_dir, allow_from_env, pio, warnings, created_dirs,
                   install_calls, subprocs, tracked, sdkconfig, sdkconfig_defaults,
                   cfg_args, expanded>>

\* Lines 262-266
LibInstall ==
    /\ pc = "lib_install"
    /\ subprocs' = Append(subprocs, [cmd |-> "lib --global install", dir |-> None])
    /\ \E ok \in BOOLEAN :
        IF ok THEN Passes("lib_install", "build")
        ELSE Fails("lib_install", "BuildError")
    /\ UNCHANGED <<env, install_dir, allow_from_env, pio, warnings, created_dirs,
                   install_calls, tracked, sdkconfig, sdkconfig_defaults, cfg_args, expanded>>

\* Line 268
Build ==
    /\ pc = "build"
    /\ subprocs' = Append(subprocs, [cmd |-> IF env.profile = <<"release">>
                                             THEN "build release" ELSE "build debug",
                                     dir |-> None])
    /\ \E ok \in BOOLEAN :
        IF ok THEN Passes("build", "from_dump")
        ELSE Fails("build", "BuildError")
    /\ UNCHANGED <<env, install_dir, allow_from_env, pio, warnings, created_dirs,
                   install_calls, tracked, sdkconfig, sdkconfig_defaults, cfg_args, expanded>>

\* Lines 270-274
ReadDump ==
    /\ pc = "from_dump"
    /\ \E ok \in BOOLEAN :
        IF ok THEN Passes("from_dump", "cfg")
        ELSE Fails("from_dump", "BuildError")
    /\ UNCHANGED <<env, install_dir, allow_from_env, pio, warnings, created_dirs,
                   install_calls, subprocs, tracked, sdkconfig, sdkconfig_defaults,
                   cfg_args, expanded>>

\* Lines 277-295: env.kconfig is what kconfig::try_from_config_file reads from
\* the generated sdkconfig, None when the file cannot be read
TranslateKconfig ==
    /\ pc = "cfg"
    /\ IF env.kconfig.some
       THEN /\ cfg_args' = TranslateCfg(env.kconfig.val)
            /\ Passes("cfg", "bindgen")
       ELSE /\ cfg_args' = cfg_args
            /\ Fails("cfg", "IoError")
    /\ UNCHANGED <<env, install_dir, allow_from_env, pio, warnings, created_dirs,
                   install_calls, subprocs, tracked, sdkconfig, sdkconfig_defaults, expanded>>

\* Lines 297-362: the header is tracked, the include and library directories
\* are collected, the target is read back from the flags, bindgen runs
RunBindgen ==
    /\ pc = "bindgen"
    /\ tracked' = tracked \cup {<<"src", SEP, "include", SEP, "bindings", ".", "h">>}
    /\ IF ~CfgGet(cfg_args, S_idf_target_cfg).some
       THEN Fails("bindgen", "MissingIdfTarget")
       ELSE \E ok \in BOOLEAN :
            IF ok THEN Passes("bindgen", "propagate")
            ELSE Fails("bindgen", "BindgenError")
    /\ UNCHANGED <<env, install_dir, allow_from_env, pio, warnings, created_dirs,
                   install_calls, subprocs, sdkconfig, sdkconfig_defaults, cfg_args, expanded>>

\* Lines 364-383
Propagate ==
    /\ pc = "propagate"
    /\ \E ok \in BOOLEAN :
        IF ok THEN Passes("propagate", "done")
        ELSE Fails("propagate", "PropagateError")
    /\ UNCHANGED <<env, install_dir, allow_from_env, pio, warnings, created_dirs,
                   install_calls, subprocs, tracked, sdkconfig, sdkconfig_defaults,
                   cfg_args, expanded>>

Next ==
    \/ Start
    \/ ResolveInstallDir
    \/ AcquireToolchain
    \/ ResolvePlatform
    \/ ResolvePrimary
    \/ ResolveDefaults
    \/ GenerateProject
    \/ LibInstall
    \/ Build
    \/ ReadDump
    \/ TranslateKconfig
    \/ RunBindgen
    \/ Propagate

---------------------------------------------------------------------------
(* Environments *)

Str_debug == <<"debug">>
Str_release == <<"release">>
Str_esp32 == <<"esp32">>

\* Values of ESP_IDF_TOOLS_INSTALL_DIR
InstallVars ==
    { None,
      Some(<<>>),
      Some(<<" ">>),
      Some(<<" ", "\t">>),
      Some(<<BAD>>),
      Some(S_global),
      Some(<<"G","l","o","b","a","l">>),
      Some(S_workspace),
      Some(<<"W","O","R","K","S","P","A","C","E">>),
      Some(S_out),
      Some(<<" ","O","u","t","\n">>),
      Some(S_fromenv),
      Some(<<"F","R","O","M","E","N","V">>),
      Some(<<" ","f","r","o","m","e","n","v"," ">>),
      Some(S_custom_prefix \o <<"/","t","m","p","/","x">>),
      Some(S_custom_prefix \o <<"x">>),
      Some(S_custom_prefix),
      Some(<<"C","U","S","T","O","M",":","/","t","m","p","/","x">>),
      Some(<<"C","u","s","t","o","m",":","x">>),
      Some(<<"c","u","s","t","o","m">>),
      Some(<<"b","o","g","u","s">>),
      Some(<<"f","r","o","m"," ","e","n","v">>) }

K_CONFIG_IDF_TARGET == <<"C","O","N","F","I","G","_","I","D","F","_","T","A","R","G","E","T">>
K_CONFIG_FOO == <<"C","O","N","F","I","G","_","F","O","O">>
K_esp_idf_foo == <<"e","s","p","_","i","d","f","_","f","o","o">>
V_esp32 == <<"e","s","p","3","2">>

Entry(k, v) == [key |-> k, value |-> v]

\* Environments of the whole pipeline
PipelineEnvs ==
    [ piofirst : BOOLEAN,
      has_workspace : BOOLEAN,
      install_var : InstallVars,
      pio_in_env : BOOLEAN,
      profile : {Str_debug, Str_release},
      mcu : {Str_esp32},
      sdkconfig_var : {None},
      defaults_var : {None, Some(<<"a", ";", BAD>>)},
      disk : {[files |-> {workspace_dir \o <<SEP>> \o SDKCONFIG_FILE,
                          workspace_dir \o <<SEP>> \o SDKCONFIG_DEFAULTS_FILE},
               dirs |-> {workspace_dir}]},
      kconfig : {None,
                 Some(<<Entry(K_CONFIG_FOO, TristateTrue)>>),
                 Some(<<Entry(K_CONFIG_IDF_TARGET, String(V_esp32))>>)} ]

InitState(e) ==
    /\ env = e
    /\ pc = "start"
    /\ err = NoError
    /\ stages = <<>>
    /\ install_dir = Global
    /\ allow_from_env = FALSE
    /\ pio = "none"
    /\ warnings = <<>>
    /\ created_dirs = {}
    /\ install_calls = <<>>
    /\ subprocs = <<>>
    /\ tracked = {}
    /\ sdkconfig = None
    /\ sdkconfig_defaults = <<>>
    /\ cfg_args = <<>>
    /\ expanded = <<>>

Init == \E e \in PipelineEnvs : InitState(e)

Spec == Init /\ [][Next]_vars

---------------------------------------------------------------------------
(* A direct call of list_specific_sdkconfigs *)

Str_esp32c3 == <<"esp32c3">>

\* Every name the expansion of base `a` can look up, for any profile and chip
VariantsOf(base) ==
    {base}
    \cup {base \o <<".">> \o x : x \in {Str_debug, Str_release, Str_esp32, Str_esp32c3}}
    \cup {base \o <<".">> \o pr \o <<".">> \o c :
            pr \in {Str_debug, Str_release}, c \in {Str_esp32, Str_esp32c3}}

ExpandEnvs ==
    [ path : {<<SEP, "w", SEP, "a">>, <<SEP, "w", SEP, "..">>,
              <<SEP, "w", SEP, "a", ".", "debug">>, <<SEP, "x", SEP, "a">>},
      profile : {Str_debug, Str_release},
      mcu : {Str_esp32, Str_esp32c3},
      disk : {[files |-> (f \cup g) \ d, dirs |-> d] :
                f \in SUBSET VariantsOf(<<SEP, "w", SEP, "a">>),
                g \in {{}, {<<SEP, "x", SEP, "a">>}},
                d \in {{}, {<<SEP, "w", SEP, "a", ".", "esp32">>}}} ]

CallListSpecific ==
    /\ pc = "call"
    /\ expanded' = list_specific_sdkconfigs(env.disk, env.path, env.profile, env.mcu)
    /\ pc' = "returned"
    /\ UNCHANGED <<env, err, stages, install_dir, allow_from_env, pio, warnings,
                   created_dirs, install_calls, subprocs, tracked, sdkconfig,
                   sdkconfig_defaults, cfg_args>>

InitExpand ==
    \E e \in ExpandEnvs :
        /\ env = e
        /\ pc = "call"
        /\ err = NoError
        /\ stages = <<>>
        /\ install_dir = Global
        /\ allow_from_env = FALSE
        /\ pio = "none"
        /\ warnings = <<>>
        /\ created_dirs = {}
        /\ install_calls = <<>>
        /\ subprocs = <<>>
        /\ tracked = {}
        /\ sdkconfig = None
        /\ sdkconfig_defaults = <<>>
        /\ cfg_args = <<>>
        /\ expanded = <<>>

SpecExpand == InitExpand /\ [][CallListSpecific]_vars

---------------------------------------------------------------------------
(* The run up to the overlay resolution of lines 209-258, over the files    *)
(* and lists the overlays depend on                                         *)

MaxVarLen == 3
MaxEntries == 2

SeqsUpTo(S, n) == UNION {[1..k -> S] : k \in 0..n}

InWorkspace(name) == workspace_dir \o <<SEP>> \o name

\* The files of the workspace the overlays of `a` and `b` can name
OverlayFiles(profile, chip) ==
    { InWorkspace(<<"a">>),
      InWorkspace(<<"a", ".">> \o profile),
      InWorkspace(<<"a", ".">> \o chip),
      InWorkspace(<<"a", ".">> \o profile \o <<".">> \o chip),
      InWorkspace(<<"b">>),
      InWorkspace(<<"b", ".">> \o profile) }

OverlayEnvs ==
    UNION { [ piofirst : {FALSE},
              has_workspace : {TRUE},
              install_var : {None},
              pio_in_env : {TRUE},
              profile : {pr},
              mcu : {chip},
              sdkconfig_var : {None, Some(<<"a">>)},
              defaults_var : {None} \cup {Some(v) : v \in SeqsUpTo({"a", "b", ";"}, MaxVarLen)},
              disk : {[files |-> f, dirs |-> {workspace_dir}] :
                        f \in SUBSET OverlayFiles(pr, chip)},
              kconfig : {None} ] :
            pr \in {Str_debug, Str_release}, chip \in {Str_esp32, Str_esp32c3} }

InitOverlay == \E e \in OverlayEnvs : InitState(e)

NextOverlay ==
    \/ Start
    \/ ResolveInstallDir
    \/ AcquireToolchain
    \/ ResolvePlatform
    \/ ResolvePrimary
    \/ ResolveDefaults

SpecOverlay == InitOverlay /\ [][NextOverlay]_vars

---------------------------------------------------------------------------
(* The bindings-only run of a PIO->Cargo build, lines 139-144 and 277-383 *)

KconfigEntries ==
    { Entry(k, v) :
        k \in {K_CONFIG_IDF_TARGET, S_idf_target_cfg, K_esp_idf_foo, K_CONFIG_FOO},
        v \in {TristateTrue, TristateFalse, String(V_esp32)} }

CfgEnvs ==
    [ piofirst : {TRUE},
      has_workspace : {TRUE},
      install_var : {None},
      pio_in_env : {TRUE},
      profile : {Str_debug},
      mcu : {Str_esp32},
      sdkconfig_var : {None},
      defaults_var : {None},
      disk : {[files |-> {}, dirs |-> {workspace_dir}]},
      kconfig : {None} \cup {Some(k) : k \in SeqsUpTo(KconfigEntries, MaxEntries)} ]

InitCfg == \E e \in CfgEnvs : InitState(e)

NextCfg == Start \/ TranslateKconfig \/ RunBindgen \/ Propagate

SpecCfg == InitCfg /\ [][NextCfg]_vars

---------------------------------------------------------------------------
(* Properties *)

Ran(stage) == \E i \in 1..Len(stages) : stages[i] = stage
FailedAt(stage) == err.kind # "none" /\ err.stage = stage
InstallerInvoked == \E i \in 1..Len(subprocs) : subprocs[i].cmd = "install"

\* What the acquisition did, read off the state
AcquireOutcome ==
    IF FailedAt("acquire") /\ err.kind = "ToolchainNotFound" /\ install_calls = <<>>
        THEN "fail"
    ELSE IF install_calls = <<>> /\ ~InstallerInvoked /\ created_dirs = {}
            /\ pio = "env" /\ warnings = <<>>
        THEN "reuse"
    ELSE IF install_calls = <<install_dir>> /\ warnings # <<>> THEN "warn_install"
    ELSE IF install_calls = <<install_dir>> /\ warnings = <<>> THEN "install"
    ELSE "other"

\* The decision table of the acquirer
DecisionTable(found, allowed, required) ==
    IF found /\ allowed THEN "reuse"
    ELSE IF found /\ ~allowed THEN "warn_install"
    ELSE IF ~found /\ allowed /\ required THEN "fail"
    ELSE IF ~found /\ ~required THEN "install"
    ELSE "unspecified"

\* C1 as stated: the acquisition follows the decision table read over the
\* allow-from-env flag the resolver returned (is_default) and the
\* require-from-env flag, and has no other outcome.
C1_TableOverAllowFlag ==
    Ran("acquire") =>
        LET row == DecisionTable(env.pio_in_env, allow_from_env, install_dir = FromEnv) IN
        /\ AcquireOutcome \in {"reuse", "warn_install", "fail", "install"}
        /\ row # "unspecified" => AcquireOutcome = row

\* C1 amended: the acquisition follows the decision table with "allowed"
\* read as allow-from-env OR require-from-env: found and allowed -> reuse
\* without install; found and not allowed -> warning and install at the
\* location; not found and required -> ToolchainNotFound; not found and not
\* required -> install at the location; nothing else happens.
C1_TableOverMaybeFromEnv ==
    Ran("acquire") =>
        LET required == install_dir = FromEnv
            row == DecisionTable(env.pio_in_env, allow_from_env \/ required, required)
        IN /\ row # "unspecified"
           /\ AcquireOutcome = row

\* C1 witness: the directive is fromenv (not allowed by default, required),
\* platformio is in the environment, and it was reused
C1_Witness ==
    /\ Ran("acquire")
    /\ env.pio_in_env /\ ~allow_from_env /\ install_dir = FromEnv
    /\ AcquireOutcome = "reuse"

\* C2: with the install location FromEnv nothing is installed: no directory
\* is created, the install closure and the installer are never invoked, and
\* the run reuses the instance of the environment or fails with
\* ToolchainNotFound.
C2_FromEnvNeverInstalls ==
    (Ran("acquire") /\ install_dir = FromEnv) =>
        /\ created_dirs = {}
        /\ install_calls = <<>>
        /\ ~InstallerInvoked
        /\ \/ pio = "env" /\ ~FailedAt("acquire")
           \/ FailedAt("acquire") /\ err.kind = "ToolchainNotFound" /\ pio = "none"

\* C2 witness: FromEnv without platformio in the environment ended in
\* ToolchainNotFound
C2_Witness ==
    /\ Ran("acquire") /\ install_dir = FromEnv /\ ~env.pio_in_env
    /\ FailedAt("acquire") /\ err.kind = "ToolchainNotFound"

IsBlank(v) == \A i \in 1..Len(v) : IsWhitespace(v[i])

\* The value without the whitespace around it, for a value that is not blank
Unpadded(v) ==
    LET first == CHOOSE i \in 1..Len(v) :
                    ~IsWhitespace(v[i]) /\ \A j \in 1..(i - 1) : IsWhitespace(v[j])
        last == CHOOSE i \in 1..Len(v) :
                    ~IsWhitespace(v[i]) /\ \A j \in (i + 1)..Len(v) : IsWhitespace(v[j])
    IN SubSeq(v, first, last)

DefaultWorkspaceDir ==
    Workspace(<<SEP, "w", SEP, ".embuild", SEP, "platformio">>)

\* C3: the resolver uses the default directive and returns is_default = TRUE
\* exactly when the variable is unset or blank; otherwise it resolves the
\* value with the surrounding whitespace removed and returns is_default =
\* FALSE, also when the value names the strategy of the default.
C3_DefaultIffAbsentOrBlank ==
    Ran("from_env_or") =>
        LET v == env.install_var IN
        IF ~v.some \/ (~(BAD \in Range(v.val)) /\ IsBlank(v.val))
        THEN ~FailedAt("from_env_or") /\ allow_from_env /\ install_dir = DefaultWorkspaceDir
        ELSE IF BAD \in Range(v.val) THEN FailedAt("from_env_or")
        ELSE LET r == ParseLocation(Unpadded(v.val), S_platformio, Some(workspace_dir)) IN
             IF r.ok
             THEN ~FailedAt("from_env_or") /\ ~allow_from_env /\ install_dir = r.val
             ELSE FailedAt("from_env_or")

\* C3 witness: a variable holding only whitespace resolved to the default
C3_Witness ==
    /\ Ran("from_env_or") /\ ~FailedAt("from_env_or")
    /\ env.install_var = Some(<<" ", "\t">>)
    /\ allow_from_env /\ install_dir = DefaultWorkspaceDir

\* C4 as stated: the directive is matched without regard to letter case:
\* global, workspace, out, fromenv and the prefix custom: in any casing
\* resolve to their location, and every other value is a configuration error.
C4_CaseInsensitiveDirective ==
    (Ran("from_env_or") /\ env.install_var.some
        /\ ~(BAD \in Range(env.install_var.val)) /\ ~IsBlank(env.install_var.val)) =>
        LET v == Unpadded(env.install_var.val)
            lower == to_lowercase(v)
            resolved == ~FailedAt("from_env_or")
        IN
        IF lower = S_global THEN resolved /\ install_dir = Global
        ELSE IF lower = S_workspace THEN resolved /\ install_dir = DefaultWorkspaceDir
        ELSE IF lower = S_out
            THEN resolved /\ install_dir = Out(<<SEP, "out", SEP, "platformio">>)
        ELSE IF lower = S_fromenv THEN resolved /\ install_dir = FromEnv
        ELSE IF starts_with(lower, S_custom_prefix)
            THEN LET suffix == SubSeq(v, Len(S_custom_prefix) + 1, Len(v)) IN
                 /\ resolved
                 /\ install_dir = Custom(IF suffix # <<>> /\ suffix[1] = SEP THEN suffix
                                         ELSE workspace_dir \o <<SEP>> \o suffix)
        ELSE FailedAt("from_env_or") /\ err.kind = "ConfigurationError"

\* The four names the expansion of `base` looks up in the workspace, by
\* decreasing specificity: profile and chip, chip, profile, base
BySpecificity(base, profile, chip) ==
    << InWorkspace(base \o <<".">> \o profile \o <<".">> \o chip),
       InWorkspace(base \o <<".">> \o chip),
       InWorkspace(base \o <<".">> \o profile),
       InWorkspace(base) >>

\* C5: for a path with a file name, the expansion yields exactly the
\* candidates name.profile.chip, name.chip, name.profile, name of the parent
\* directory that exist as regular files, each once, in that order; with only
\* the base file present it yields that one path.
C5_ExpansionExactAndOrdered ==
    (pc = "returned" /\ env.path[Len(env.path)] # "..") =>
        LET parent == SubSeq(env.path, 1, 3)
            name == SubSeq(env.path, 4, Len(env.path))
            cand == << parent \o name \o <<".">> \o env.profile \o <<".">> \o env.mcu,
                       parent \o name \o <<".">> \o env.mcu,
                       parent \o name \o <<".">> \o env.profile,
                       parent \o name >>
            Rank(q) == CHOOSE k \in 1..4 : cand[k] = q
        IN
        /\ \A i \in 1..Len(expanded) :
            /\ expanded[i] \in env.disk.files
            /\ expanded[i] \notin env.disk.dirs
            /\ \E k \in 1..4 : cand[k] = expanded[i]
        /\ \A k \in 1..4 :
            cand[k] \in env.disk.files => \E i \in 1..Len(expanded) : expanded[i] = cand[k]
        /\ \A i, j \in 1..Len(expanded) : i < j => Rank(expanded[i]) < Rank(expanded[j])
        /\ (Range(cand) \cap env.disk.files = {cand[4]}) => expanded = <<cand[4]>>

\* C5 witness: three candidates are files and are yielded in order, the
\* chip-specific name is a directory and is left out
C5_Witness ==
    /\ pc = "returned"
    /\ env.path = <<SEP, "w", SEP, "a">>
    /\ env.profile = Str_debug /\ env.mcu = Str_esp32
    /\ <<SEP, "w", SEP, "a", ".", "esp32">> \in env.disk.dirs
    /\ expanded = << <<SEP, "w", SEP, "a", ".", "debug", ".", "esp32">>,
                     <<SEP, "w", SEP, "a", ".", "debug">>,
                     <<SEP, "w", SEP, "a">> >>

\* The items of a semicolon-separated list that are not empty
RECURSIVE ItemsFrom(_, _)
ItemsFrom(s, cur) ==
    IF s = <<>> THEN (IF cur = <<>> THEN <<>> ELSE <<cur>>)
    ELSE IF Head(s) = ";"
        THEN (IF cur = <<>> THEN <<>> ELSE <<cur>>) \o ItemsFrom(Tail(s), <<>>)
    ELSE ItemsFrom(Tail(s), Append(cur, Head(s)))

DefaultsList == IF env.defaults_var.some THEN env.defaults_var.val
                ELSE <<"sdkconfig", ".", "defaults">>

PrimaryBase == IF env.sdkconfig_var.some THEN env.sdkconfig_var.val ELSE <<"sdkconfig">>

Exists(q) == q \in env.disk.files

\* The existing overlays of one base, least specific first, with their
\* destination names
LayersOf(base) ==
    LET up == << <<InWorkspace(base), base>>,
                 <<InWorkspace(base \o <<".">> \o env.profile), base \o <<".">> \o env.profile>>,
                 <<InWorkspace(base \o <<".">> \o env.mcu), base \o <<".">> \o env.mcu>>,
                 <<InWorkspace(base \o <<".">> \o env.profile \o <<".">> \o env.mcu),
                   base \o <<".">> \o env.profile \o <<".">> \o env.mcu>> >>
    IN SelectSeq(up, LAMBDA f : Exists(f[1]))

DefaultsResolved == Ran("sdkconfig_defaults") /\ ~FailedAt("sdkconfig_defaults")

\* C6: the defaults are, for the items of the semicolon-separated list in
\* list order and without the empty items, the existing overlays of each
\* item from the least to the most specific, each under its own file name.
C6_DefaultsLeastSpecificFirst ==
    DefaultsResolved =>
        LET items == ItemsFrom(DefaultsList, <<>>) IN
        sdkconfig_defaults = Flatten([i \in 1..Len(items) |-> LayersOf(items[i])])

\* C6 witness: the list "a;b" with a.debug.esp32, a.esp32 and b.debug on disk
\* gives a.esp32, a.debug.esp32, b.debug
C6_Witness ==
    /\ DefaultsResolved
    /\ env.defaults_var = Some(<<"a", ";", "b">>)
    /\ env.profile = Str_debug /\ env.mcu = Str_esp32
    /\ env.disk.files = { InWorkspace(<<"a", ".", "debug", ".", "esp32">>),
                          InWorkspace(<<"a", ".", "esp32">>),
                          InWorkspace(<<"b", ".", "debug">>) }
    /\ sdkconfig_defaults =
        << <<InWorkspace(<<"a", ".", "esp32">>), <<"a", ".", "esp32">>>>,
           <<InWorkspace(<<"a", ".", "debug", ".", "esp32">>), <<"a", ".", "debug", ".", "esp32">>>>,
           <<InWorkspace(<<"b", ".", "debug">>), <<"b", ".", "debug">>>> >>

\* C7: the primary sdkconfig is none exactly when no candidate of the primary
\* path exists, and otherwise the single most specific existing candidate
\* under the destination name sdkconfig.{profile}.
C7_PrimaryMostSpecificOnly ==
    Ran("sdkconfig") =>
        LET cand == BySpecificity(PrimaryBase, env.profile, env.mcu)
            dest == <<"sdkconfig", ".">> \o env.profile
        IN
        IF Exists(cand[1]) THEN sdkconfig = Some(<<cand[1], dest>>)
        ELSE IF Exists(cand[2]) THEN sdkconfig = Some(<<cand[2], dest>>)
        ELSE IF Exists(cand[3]) THEN sdkconfig = Some(<<cand[3], dest>>)
        ELSE IF Exists(cand[4]) THEN sdkconfig = Some(<<cand[4], dest>>)
        ELSE sdkconfig = None

\* C7 witness: a.release and a exist, a.release is taken and renamed
C7_Witness ==
    /\ Ran("sdkconfig")
    /\ env.sdkconfig_var = Some(<<"a">>)
    /\ env.profile = Str_release
    /\ env.disk.files = {InWorkspace(<<"a">>), InWorkspace(<<"a", ".", "release">>)}
    /\ sdkconfig = Some(<< InWorkspace(<<"a", ".", "release">>),
                           <<"sdkconfig", ".", "release">> >>)

FlagNameOf(k) ==
    IF k = K_CONFIG_IDF_TARGET THEN
        <<"e","s","p","_","i","d","f","_","c","o","n","f","i","g","_","i","d","f","_","t","a","r","g","e","t">>
    ELSE IF k = S_idf_target_cfg THEN
        <<"e","s","p","_","i","d","f","_","e","s","p","_","i","d","f","_","c","o","n","f","i","g","_","i","d","f","_","t","a","r","g","e","t">>
    ELSE IF k = K_esp_idf_foo THEN
        <<"e","s","p","_","i","d","f","_","e","s","p","_","i","d","f","_","f","o","o">>
    ELSE <<"e","s","p","_","i","d","f","_","c","o","n","f","i","g","_","f","o","o">>

\* The name of an emitted flag: the flag up to its "="
FlagName(f) ==
    IF \E i \in 1..Len(f) : f[i] = "="
    THEN SubSeq(f, 1, (CHOOSE i \in 1..Len(f) : f[i] = "=" /\ \A j \in 1..(i - 1) : f[j] # "=") - 1)
    ELSE f

CfgTranslated == Ran("cfg") /\ ~FailedAt("cfg")

\* C9 as stated: an entry is emitted exactly when its value is the true
\* tristate or its key matches the allow-pattern, the key
\* esp_idf_config_idf_target being one that matches; the emitted entries are
\* in input order.
C9_KeptIffTrueOrAllowedKey ==
    CfgTranslated =>
        LET kept == SelectSeq(env.kconfig.val,
                        LAMBDA e : \/ e.value = TristateTrue
                                   \/ e.key \in {K_CONFIG_IDF_TARGET, S_idf_target_cfg})
        IN [i \in 1..Len(cfg_args) |-> FlagName(cfg_args[i])]
            = [i \in 1..Len(kept) |-> FlagNameOf(kept[i].key)]

\* C9 amended: the flags are, in input order, those of the entries whose
\* value is the true tristate, or whose value is a string and whose key
\* holds IDF_TARGET in upper case (CONFIG_IDF_TARGET, emitted as
\* esp_idf_config_idf_target="value"); a key spelled esp_idf_config_idf_target
\* does not match the pattern, and a false tristate is never emitted.
C9_FlagsOfTrueOrUpperCaseTarget ==
    CfgTranslated =>
        LET emitted == SelectSeq(env.kconfig.val,
                        LAMBDA e : \/ e.value = TristateTrue
                                   \/ e.value.type = "String" /\ e.key = K_CONFIG_IDF_TARGET)
            Flag(e) == IF e.value = TristateTrue THEN FlagNameOf(e.key)
                       ELSE FlagNameOf(e.key) \o <<"=", "\"">> \o e.value.s \o <<"\"">>
        IN cfg_args = [i \in 1..Len(emitted) |-> Flag(emitted[i])]

\* C9 witness: a string under the lower-case key is dropped, the string
\* under CONFIG_IDF_TARGET is emitted
C9_Witness ==
    /\ CfgTranslated
    /\ env.kconfig = Some(<<Entry(S_idf_target_cfg, String(V_esp32)),
                            Entry(K_CONFIG_IDF_TARGET, String(V_esp32))>>)
    /\ cfg_args = << <<"e","s","p","_","i","d","f","_","c","o","n","f","i","g","_",
                       "i","d","f","_","t","a","r","g","e","t","=","\"","e","s","p","3","2","\"">> >>

PipelineOrder ==
    <<"start", "from_env_or", "acquire", "resolve", "sdkconfig", "sdkconfig_defaults",
      "generate", "lib_install", "build", "from_dump", "cfg", "bindgen", "propagate">>

StagePos(st) == CHOOSE k \in 1..Len(PipelineOrder) : PipelineOrder[k] = st

\* Every stage ran at most once and in pipeline order, and a failed stage is
\* the last one that ran
FailuresTerminal ==
    /\ \A i \in 1..Len(stages) : \E k \in 1..Len(PipelineOrder) : PipelineOrder[k] = stages[i]
    /\ \A i, j \in 1..Len(stages) : i < j => StagePos(stages[i]) < StagePos(stages[j])
    /\ err.kind # "none" =>
        /\ pc = "failed"
        /\ stages # <<>>
        /\ stages[Len(stages)] = err.stage

\* C10 as stated: every failure is terminal, no stage runs twice, and a run
\* that fails with a ConfigurationError has invoked no subprocess.
C10_ConfigurationErrorBeforeSubprocess ==
    /\ FailuresTerminal
    /\ err.kind = "ConfigurationError" => subprocs = <<>>

\* C10 amended: every failure is terminal, no stage runs twice, and a run
\* that fails with a ConfigurationError of the install location (no
\* workspace, malformed directive, value that is not unicode) has invoked no
\* subprocess and called no install.
C10_InstallDirErrorBeforeSubprocess ==
    /\ FailuresTerminal
    /\ (err.kind = "ConfigurationError" /\ err.stage \in {"start", "from_env_or"}) =>
        subprocs = <<>> /\ install_calls = <<>> /\ created_dirs = {}

\* C10 witness: a malformed directive ended the run before the installer
\* would have been needed
C10_Witness ==
    /\ FailedAt("from_env_or") /\ err.kind = "ConfigurationError"
    /\ ~env.pio_in_env
    /\ env.install_var = Some(<<"b","o","g","u","s">>)
    /\ stages = <<"start", "from_env_or">>
    /\ subprocs = <<>>

====
